---------------------------- MODULE Spec2Model ----------------------------
(***************************************************************************)
(* The scroll-direction-aware auto-hiding panel controller of              *)
(* src/src/js/mobile-scroll-ui.js (the DOMContentLoaded handler of lines   *)
(* 102-239, the variant with the auto-hide timer).                         *)
(*                                                                         *)
(* The controller is observed at event-handler granularity: a change of    *)
(* the page (scroll offset, viewport size, the disclosure's open           *)
(* attribute) and the listener the browser runs for it are one step.  The  *)
(* two things the code itself defers, requestAnimationFrame(update) and    *)
(* the setTimeout callback, are separate steps, and the browser's queue of *)
(* animation-frame callbacks and its set of pending timeouts are state.    *)
(* Time is abstracted: a pending timeout may fire at any moment.           *)
(*                                                                         *)
(* The same file holds an earlier variant of the controller (lines 9-92,   *)
(* no timer, a fixed 50px near-top zone) and the back-to-top visibility    *)
(* handler (lines 241-275, which toggles another class, "hidden").  The    *)
(* earlier variant keeps the same lastScrollY and runs right before this   *)
(* controller in every step, so the class it leaves is overwritten by the  *)
(* one modelled here.                                                      *)
(***************************************************************************)
EXTENDS Integers, FiniteSets, Sequences, TLC

(***************************************************************************)
(* Bounds of the model.                                                    *)
(***************************************************************************)
\* animation-frame callbacks the browser may hold before a frame is rendered
MaxRafQueue == 2
\* timeouts the browser may hold pending at once
MaxPendingTimeouts == 2

\* scroll offsets the page can be at: around each threshold, with gaps
\* below and above minDelta
ScrollPositions == {0, 195, 200, 205, 212, 240, 245, 300}
\* viewport widths on both sides of the 899px breakpoint
ViewportWidths == {899, 900}
\* viewport heights: thresholds 200 (the floor of 200), 201 and 240
ViewportHeights == {300, 336, 400}

(***************************************************************************)
(* Program constants.                                                      *)
(***************************************************************************)
minDelta == 8
MobileMaxWidth == 899
MinHideAfterPixels == 200
Null == 0

VARIABLES
    scrollY,                \* window.scrollY
    innerWidth,             \* viewport width, read through matchMedia
    innerHeight,            \* window.innerHeight
    tocContainer,           \* #toc-container exists
    backToTopButton,        \* #back-to-top exists
    tocDetails,             \* details.toc-details exists inside the TOC
    open,                   \* tocDetails.open
    tocHidden,              \* tocContainer carries scroll-direction-hidden
    bttHidden,              \* backToTopButton carries scroll-direction-hidden
    lastScrollY,
    rafPending,
    enableHideAfterPixels,
    autoHideTimeoutId,      \* Null or a timeout id
    timeouts,               \* the browser's pending auto-hide timeouts (ids)
    rafQueue,               \* update callbacks queued for the next frame
    hiddenBy,               \* history: who made the last hide call
    ev,                     \* history: the last handler that ran
    timerOps,               \* history: the timer calls of the last handler
    run,                    \* history: the movement the evaluations have seen
    preview,                \* the link-preview toggle script (part_004)
    blog                    \* the blog-list script (part_000)

vars == <<scrollY, innerWidth, innerHeight, tocContainer, backToTopButton,
          tocDetails, open, tocHidden, bttHidden, lastScrollY, rafPending,
          enableHideAfterPixels, autoHideTimeoutId, timeouts, rafQueue,
          hiddenBy, ev, timerOps, run, preview, blog>>

Abs(x) == IF x < 0 THEN -x ELSE x

Max(a, b) == IF a >= b THEN a ELSE b

\* the state as one record, the form the controller's functions work on
Cur ==
    [scrollY |-> scrollY, innerWidth |-> innerWidth, innerHeight |-> innerHeight,
     tocContainer |-> tocContainer, backToTopButton |-> backToTopButton,
     tocDetails |-> tocDetails, open |-> open,
     tocHidden |-> tocHidden, bttHidden |-> bttHidden,
     lastScrollY |-> lastScrollY, rafPending |-> rafPending,
     enableHideAfterPixels |-> enableHideAfterPixels,
     autoHideTimeoutId |-> autoHideTimeoutId, timeouts |-> timeouts,
     rafQueue |-> rafQueue, hiddenBy |-> hiddenBy,
     cancelled |-> FALSE, issued |-> FALSE,
     seenY |-> run.seenY, accumulated |-> FALSE]

\* a step of the controller: the other scripts of the page are not involved
Become(s) ==
    /\ scrollY' = s.scrollY
    /\ innerWidth' = s.innerWidth
    /\ innerHeight' = s.innerHeight
    /\ tocContainer' = s.tocContainer
    /\ backToTopButton' = s.backToTopButton
    /\ tocDetails' = s.tocDetails
    /\ open' = s.open
    /\ tocHidden' = s.tocHidden
    /\ bttHidden' = s.bttHidden
    /\ lastScrollY' = s.lastScrollY
    /\ rafPending' = s.rafPending
    /\ enableHideAfterPixels' = s.enableHideAfterPixels
    /\ autoHideTimeoutId' = s.autoHideTimeoutId
    /\ timeouts' = s.timeouts
    /\ rafQueue' = s.rafQueue
    /\ hiddenBy' = s.hiddenBy
    /\ timerOps' = [cancelled |-> s.cancelled, issued |-> s.issued]
    /\ run' = [seenY |-> s.seenY, accumulated |-> s.accumulated]
    /\ UNCHANGED <<preview, blog>>

(***************************************************************************)
(* The controller's functions.                                             *)
(***************************************************************************)
isMobileViewport(s) == s.innerWidth <= MobileMaxWidth

\* Math.max(200, Math.floor(window.innerHeight * 0.6))
HideAfterPixels(h) == Max(MinHideAfterPixels, (h * 6) \div 10)

\* the listeners exist only if one of the two elements does
ControllerActive(s) == s.tocContainer \/ s.backToTopButton

\* faulty variant: the handle is not reset to null
clearAutoHideTimer_KeepHandle(s) ==
    IF s.autoHideTimeoutId # Null
    THEN [s EXCEPT !.timeouts = @ \ {s.autoHideTimeoutId},
                   !.cancelled = @ \/ (s.autoHideTimeoutId \in s.timeouts)]
    ELSE s

\* (cancelled records that window.clearTimeout met a pending timeout)
clearAutoHideTimer(s) ==
    IF s.autoHideTimeoutId # Null
    THEN [s EXCEPT !.timeouts = @ \ {s.autoHideTimeoutId},
                   !.autoHideTimeoutId = Null,
                   !.cancelled = @ \/ (s.autoHideTimeoutId \in s.timeouts)]
    ELSE s

\* window.setTimeout: an id no pending timeout and no handle carries
FreshTimeoutId(s) ==
    CHOOSE i \in 1..(Cardinality(s.timeouts) + 2) :
        /\ i \notin s.timeouts
        /\ i # s.autoHideTimeoutId
        /\ \A j \in 1..(i - 1) : j \in s.timeouts \/ j = s.autoHideTimeoutId

setTimeout(s) ==
    LET id == FreshTimeoutId(s)
    IN  [s EXCEPT !.timeouts = @ \cup {id}, !.autoHideTimeoutId = id,
                  !.issued = TRUE]

\* faulty variant: the previous timeout is not cancelled
scheduleAutoHide_NoClear(s) ==
    IF ~isMobileViewport(s) THEN s
    ELSE IF s.scrollY < s.enableHideAfterPixels THEN s
    ELSE IF s.tocDetails /\ s.open THEN s
    ELSE setTimeout(s)

\* faulty variant: the viewport is not looked at
scheduleAutoHide_AnyViewport(s) ==
    LET c == clearAutoHideTimer(s)
    IN  IF c.scrollY < c.enableHideAfterPixels THEN c
        ELSE IF c.tocDetails /\ c.open THEN c
        ELSE setTimeout(c)

\* faulty variant: the scroll position is not looked at
scheduleAutoHide_NoThreshold(s) ==
    LET c == clearAutoHideTimer(s)
    IN  IF ~isMobileViewport(c) THEN c
        ELSE IF c.tocDetails /\ c.open THEN c
        ELSE setTimeout(c)

\* faulty variant: the open disclosure is not looked at
scheduleAutoHide_IgnoreOpen(s) ==
    LET c == clearAutoHideTimer(s)
    IN  IF ~isMobileViewport(c) THEN c
        ELSE IF c.scrollY < c.enableHideAfterPixels THEN c
        ELSE setTimeout(c)

scheduleAutoHide(s) ==
    LET c == clearAutoHideTimer(s)
    IN  IF ~isMobileViewport(c) THEN c
        ELSE IF c.scrollY < c.enableHideAfterPixels THEN c
        ELSE IF c.tocDetails /\ c.open THEN c
        ELSE setTimeout(c)

\* faulty variant: hiding leaves the pending timeout alone
setScrollDirectionHidden_KeepTimer(s, isHidden) ==
    LET shouldHideToc == isHidden /\ ~(s.tocDetails /\ s.open)
        t == [s EXCEPT !.tocHidden = IF s.tocContainer THEN shouldHideToc ELSE @,
                       !.bttHidden = IF s.backToTopButton THEN isHidden ELSE @,
                       !.hiddenBy = IF isHidden THEN @ ELSE "none"]
    IN  IF ~isHidden
        THEN scheduleAutoHide(t)
        ELSE t

\* faulty variant: the open disclosure exempts the back-to-top control too
setScrollDirectionHidden_ExemptBoth(s, isHidden) ==
    LET shouldHideToc == isHidden /\ ~(s.tocDetails /\ s.open)
        t == [s EXCEPT !.tocHidden = IF s.tocContainer THEN shouldHideToc ELSE @,
                       !.bttHidden = IF s.backToTopButton THEN shouldHideToc ELSE @,
                       !.hiddenBy = IF isHidden THEN @ ELSE "none"]
    IN  IF ~isHidden
        THEN scheduleAutoHide(t)
        ELSE clearAutoHideTimer(t)

\* faulty variant: classList.toggle without its force argument
setScrollDirectionHidden_Flip(s, isHidden) ==
    LET t == [s EXCEPT !.tocHidden = IF s.tocContainer THEN ~@ ELSE @,
                       !.bttHidden = IF s.backToTopButton THEN ~@ ELSE @,
                       !.hiddenBy = IF isHidden THEN @ ELSE "none"]
    IN  IF ~isHidden
        THEN scheduleAutoHide(t)
        ELSE clearAutoHideTimer(t)

\* faulty variant: the elements are used without the null checks
setScrollDirectionHidden_NoGuard(s, isHidden) ==
    LET shouldHideToc == isHidden /\ ~(s.tocDetails /\ s.open)
        t == [s EXCEPT !.tocHidden = shouldHideToc,
                       !.bttHidden = isHidden,
                       !.hiddenBy = IF isHidden THEN @ ELSE "none"]
    IN  IF ~isHidden
        THEN scheduleAutoHide(t)
        ELSE clearAutoHideTimer(t)

setScrollDirectionHidden(s, isHidden) ==
    LET shouldHideToc == isHidden /\ ~(s.tocDetails /\ s.open)
        t == [s EXCEPT !.tocHidden = IF s.tocContainer THEN shouldHideToc ELSE @,
                       !.bttHidden = IF s.backToTopButton THEN isHidden ELSE @,
                       !.hiddenBy = IF isHidden THEN @ ELSE "none"]
    IN  IF ~isHidden
        THEN scheduleAutoHide(t)
        ELSE clearAutoHideTimer(t)

\* faulty variant: the near-top zone is the fixed 50px of the controller's
\* earlier version (line 57) instead of enableHideAfterPixels
updateBranch_FixedNearTop(s) ==
    LET delta == s.scrollY - s.lastScrollY
    IN  IF ~isMobileViewport(s) THEN "desktop"
        ELSE IF Abs(delta) < minDelta THEN "jitter"
        ELSE IF s.scrollY < 50 THEN "nearTop"
        ELSE IF delta > 0 THEN "down"
        ELSE "up"

\* faulty variant: the near-top test comes before the minDelta test
updateBranch_NearTopFirst(s) ==
    LET delta == s.scrollY - s.lastScrollY
    IN  IF ~isMobileViewport(s) THEN "desktop"
        ELSE IF s.scrollY < s.enableHideAfterPixels THEN "nearTop"
        ELSE IF Abs(delta) < minDelta THEN "jitter"
        ELSE IF delta > 0 THEN "down"
        ELSE "up"

\* which way update goes from s
updateBranch(s) ==
    LET delta == s.scrollY - s.lastScrollY
    IN  IF ~isMobileViewport(s) THEN "desktop"
        ELSE IF Abs(delta) < minDelta THEN "jitter"
        ELSE IF s.scrollY < s.enableHideAfterPixels THEN "nearTop"
        ELSE IF delta > 0 THEN "down"
        ELSE "up"

\* faulty variant: every evaluation moves the baseline, also the one that
\* makes no decision
update_AdvanceOnJitter(s) ==
    LET s1 == [s EXCEPT !.rafPending = FALSE]
        b == updateBranch(s1)
    IN  CASE b = "jitter" -> [s1 EXCEPT !.lastScrollY = s1.scrollY]
          [] b = "down" ->
                [[setScrollDirectionHidden(s1, TRUE) EXCEPT !.lastScrollY = s1.scrollY]
                    EXCEPT !.hiddenBy = "scroll"]
          [] OTHER ->
                [setScrollDirectionHidden(s1, FALSE) EXCEPT !.lastScrollY = s1.scrollY]

update(s) ==
    LET s1 == [s EXCEPT !.rafPending = FALSE]
        b == updateBranch(s1)
    IN  CASE b = "desktop" ->
                [setScrollDirectionHidden(s1, FALSE) EXCEPT !.lastScrollY = s1.scrollY]
          [] b = "jitter" -> s1
          [] b = "nearTop" ->
                [setScrollDirectionHidden(s1, FALSE) EXCEPT !.lastScrollY = s1.scrollY]
          [] b = "down" ->
                [[setScrollDirectionHidden(s1, TRUE) EXCEPT !.lastScrollY = s1.scrollY]
                    EXCEPT !.hiddenBy = "scroll"]
          [] OTHER ->
                [setScrollDirectionHidden(s1, FALSE) EXCEPT !.lastScrollY = s1.scrollY]

\* faulty variant: the callback hides without looking at the page again
autoHideCallback_NoRecheck(s) ==
    [setScrollDirectionHidden(s, TRUE) EXCEPT !.hiddenBy = "timer"]

\* the body of the timeout callback
autoHideCallback(s) ==
    IF ~isMobileViewport(s) THEN s
    ELSE IF s.scrollY < s.enableHideAfterPixels THEN s
    ELSE IF s.tocDetails /\ s.open THEN s
    ELSE [setScrollDirectionHidden(s, TRUE) EXCEPT !.hiddenBy = "timer"]

\* the resize listener
onResize(s) ==
    update([s EXCEPT !.enableHideAfterPixels = HideAfterPixels(s.innerHeight),
                     !.lastScrollY = s.scrollY])

\* faulty variant: opening does not force the panels visible
onToggle_NoShow(s) ==
    IF s.open
    THEN clearAutoHideTimer([s EXCEPT !.lastScrollY = s.scrollY])
    ELSE scheduleAutoHide(s)

\* the toggle listener of the disclosure
onToggle(s) ==
    IF s.open
    THEN clearAutoHideTimer(
            [setScrollDirectionHidden(s, FALSE) EXCEPT !.lastScrollY = s.scrollY])
    ELSE scheduleAutoHide(s)

\* faulty variants: the interaction shows the panels
onTouch_Show(s) == setScrollDirectionHidden(s, FALSE)

onClick_Show(s) == setScrollDirectionHidden(s, FALSE)

\* faulty variant: the touch cancels the timer and schedules none
onTouch_ClearOnly(s) == clearAutoHideTimer(s)

\* the touchstart and click listeners (both are scheduleAutoHide itself)
onTouch(s) == scheduleAutoHide(s)

onClick(s) == scheduleAutoHide(s)

(***************************************************************************)
(* History, for stating properties of single handler runs: the handler    *)
(* that ran last, the direction of the scroll movement it evaluated (for   *)
(* the handlers that run update) and the panels and timer as it found them.*)
(***************************************************************************)
DecisionPixels == 8

Dir(s) ==
    LET delta == s.scrollY - s.lastScrollY
    IN  IF delta >= DecisionPixels THEN "down"
        ELSE IF delta <= -DecisionPixels THEN "up"
        ELSE "small"

Event(name, dir, s) ==
    [name |-> name, dir |-> dir,
     preToc |-> s.tocHidden, preBtt |-> s.bttHidden,
     preTimer |-> s.timeouts # {}, preBy |-> s.hiddenBy]

\* the evaluation finds a movement of at least minDelta from the baseline
\* that arrived in steps: an earlier evaluation has seen a part of it, in
\* the same direction, and the rest is less than minDelta
Accumulated(s) ==
    LET total == s.scrollY - s.lastScrollY
        seen == s.seenY - s.lastScrollY
        step == s.scrollY - s.seenY
    IN  /\ Abs(total) >= DecisionPixels
        /\ Abs(step) < DecisionPixels
        /\ seen * step > 0

\* the controller has looked at the scroll offset: an evaluation ran or the
\* baseline was set
Seen(r) == [r EXCEPT !.seenY = r.scrollY]

(***************************************************************************)
(* The state after the DOMContentLoaded handler: the page may load at any  *)
(* scroll offset (a restored position), with either element missing and    *)
(* with the disclosure open or closed; the handler ends with update().     *)
(***************************************************************************)
Loaded(y, w, h, toc, btt, det, op) ==
    [scrollY |-> y, innerWidth |-> w, innerHeight |-> h,
     tocContainer |-> toc, backToTopButton |-> btt,
     tocDetails |-> det, open |-> op,
     tocHidden |-> FALSE, bttHidden |-> FALSE,
     lastScrollY |-> y, rafPending |-> FALSE,
     enableHideAfterPixels |-> HideAfterPixels(h),
     autoHideTimeoutId |-> Null, timeouts |-> {},
     rafQueue |-> 0, hiddenBy |-> "none",
     cancelled |-> FALSE, issued |-> FALSE,
     seenY |-> y, accumulated |-> FALSE]

\* a page without the preview toggle and without the blog list
NoPreview == [toggle |-> FALSE]

NoBlog == [list |-> FALSE]

Init ==
    \E y \in ScrollPositions, w \in ViewportWidths, h \in ViewportHeights,
       toc \in BOOLEAN, btt \in BOOLEAN, det \in BOOLEAN, op \in BOOLEAN :
        /\ det => toc
        /\ op => det
        /\ LET s == Loaded(y, w, h, toc, btt, det, op)
               r == IF ControllerActive(s) THEN update(s) ELSE s
           IN  /\ scrollY = r.scrollY
               /\ innerWidth = r.innerWidth
               /\ innerHeight = r.innerHeight
               /\ tocContainer = r.tocContainer
               /\ backToTopButton = r.backToTopButton
               /\ tocDetails = r.tocDetails
               /\ open = r.open
               /\ tocHidden = r.tocHidden
               /\ bttHidden = r.bttHidden
               /\ lastScrollY = r.lastScrollY
               /\ rafPending = r.rafPending
               /\ enableHideAfterPixels = r.enableHideAfterPixels
               /\ autoHideTimeoutId = r.autoHideTimeoutId
               /\ timeouts = r.timeouts
               /\ rafQueue = r.rafQueue
               /\ hiddenBy = r.hiddenBy
               /\ timerOps = [cancelled |-> r.cancelled, issued |-> r.issued]
               /\ run = [seenY |-> r.seenY, accumulated |-> FALSE]
               /\ preview = NoPreview
               /\ blog = NoBlog
               /\ ev = Event("load", IF ControllerActive(s) THEN Dir(s) ELSE "-", s)

(***************************************************************************)
(* The steps.                                                              *)
(***************************************************************************)
\* the handler result is taken only while the browser's queues stay in bounds
InBounds(s) ==
    /\ Cardinality(s.timeouts) <= MaxPendingTimeouts
    /\ s.rafQueue <= MaxRafQueue

\* the scroll listener
onScroll(s) ==
    IF s.rafPending THEN s
    ELSE [s EXCEPT !.rafPending = TRUE, !.rafQueue = @ + 1]

\* the page scrolls to y and the scroll event is delivered
Scroll(y) ==
    /\ y # scrollY
    /\ LET s == [Cur EXCEPT !.scrollY = y]
           r == IF ControllerActive(s) THEN onScroll(s) ELSE s
       IN  /\ InBounds(r)
           /\ Become(r)
           /\ ev' = Event("scroll", "-", s)

\* the callbacks queued by requestAnimationFrame, run one after the other
RECURSIVE runCallbacks(_, _)
runCallbacks(s, n) ==
    IF n = 0 THEN s ELSE runCallbacks(update(s), n - 1)

\* the browser renders a frame: every queued update callback runs
AnimationFrame ==
    /\ rafQueue > 0
    /\ LET s == [Cur EXCEPT !.rafQueue = 0]
           r == runCallbacks(s, rafQueue)
       IN  /\ InBounds(r)
           /\ Become([Seen(r) EXCEPT !.accumulated = Accumulated(s)])
           /\ ev' = Event("frame", Dir(s), s)

\* the viewport changes to w x h and the resize event is delivered
Resize(w, h) ==
    /\ <<w, h>> # <<innerWidth, innerHeight>>
    /\ LET s == [Cur EXCEPT !.innerWidth = w, !.innerHeight = h]
           r == IF ControllerActive(s) THEN onResize(s) ELSE s
       IN  /\ InBounds(r)
           /\ Become(IF ControllerActive(s) THEN Seen(r) ELSE r)
           /\ ev' = Event("resize",
                         IF ControllerActive(s)
                         THEN Dir([s EXCEPT !.lastScrollY = s.scrollY]) ELSE "-", s)

\* touchstart listener
Touch ==
    /\ ControllerActive(Cur)
    /\ LET r == onTouch(Cur)
       IN  /\ InBounds(r)
           /\ Become(r)
           /\ ev' = Event("touch", "-", Cur)

\* click listener
Click ==
    /\ ControllerActive(Cur)
    /\ LET r == onClick(Cur)
       IN  /\ InBounds(r)
           /\ Become(r)
           /\ ev' = Event("click", "-", Cur)

\* the disclosure opens or closes and its toggle event is delivered
Toggle ==
    /\ tocDetails
    /\ LET s == [Cur EXCEPT !.open = ~open]
           r == onToggle(s)
       IN  /\ InBounds(r)
           /\ Become(IF s.open THEN Seen(r) ELSE r)
           /\ ev' = Event("toggle", "-", s)

\* a pending timeout fires: the browser drops it and runs the callback
TimerFire ==
    \E id \in timeouts :
        LET s == [Cur EXCEPT !.timeouts = @ \ {id}]
            r == autoHideCallback(s)
        IN  /\ InBounds(r)
            /\ Become(r)
            /\ ev' = Event("timer", "-", Cur)

Next ==
    \/ \E y \in ScrollPositions : Scroll(y)
    \/ AnimationFrame
    \/ \E w \in ViewportWidths, h \in ViewportHeights : Resize(w, h)
    \/ Touch
    \/ Click
    \/ Toggle
    \/ TimerFire

Spec == Init /\ [][Next]_vars

(***************************************************************************)
(* The link-preview toggle (src/unnamed/part_004), on a page without the   *)
(* two panels.  The file registers two DOMContentLoaded handlers, the plain *)
(* one and the desktop-aware one; a page load runs them in that order, and  *)
(* each registers its own change listener.  localStorage outlives the page; *)
(* the checkbox and the body class start afresh at every load.             *)
(***************************************************************************)
DesktopMinWidth == 900

\* localStorage.setItem stores String(toggle.checked)
BoolString(b) == IF b THEN "true" ELSE "false"

\* updateState
previewUpdateState(p) ==
    [p EXCEPT !.previewsOff = ~p.checked, !.stored = BoolString(p.checked)]

\* the handler of lines 1-19
previewInit(p) ==
    IF ~p.toggle THEN p
    ELSE previewUpdateState(
            IF p.stored # "null"
            THEN [p EXCEPT !.checked = (p.stored = "true")]
            ELSE p)

\* the handler of lines 21-42, in a viewport of width w
previewInitDesktopAware(p, w) ==
    IF ~p.toggle THEN p
    ELSE LET isDesktop == w >= DesktopMinWidth
         IN  previewUpdateState(
                IF isDesktop THEN [p EXCEPT !.checked = TRUE]
                ELSE IF p.stored # "null"
                     THEN [p EXCEPT !.checked = (p.stored = "true")]
                     ELSE p)

\* DOMContentLoaded: both handlers
previewLoad(p, w) == previewInitDesktopAware(previewInit(p), w)

\* the change event: both listeners
previewOnChange(p) == previewUpdateState(previewUpdateState(p))

\* the controller's variables on a page with neither panel
PageWithoutPanels(y, w, h) ==
    LET r == Loaded(y, w, h, FALSE, FALSE, FALSE, FALSE)
    IN  /\ scrollY = r.scrollY
        /\ innerWidth = r.innerWidth
        /\ innerHeight = r.innerHeight
        /\ tocContainer = r.tocContainer
        /\ backToTopButton = r.backToTopButton
        /\ tocDetails = r.tocDetails
        /\ open = r.open
        /\ tocHidden = r.tocHidden
        /\ bttHidden = r.bttHidden
        /\ lastScrollY = r.lastScrollY
        /\ rafPending = r.rafPending
        /\ enableHideAfterPixels = r.enableHideAfterPixels
        /\ autoHideTimeoutId = r.autoHideTimeoutId
        /\ timeouts = r.timeouts
        /\ rafQueue = r.rafQueue
        /\ hiddenBy = r.hiddenBy
        /\ timerOps = [cancelled |-> FALSE, issued |-> FALSE]
        /\ run = [seenY |-> r.seenY, accumulated |-> FALSE]
        /\ ev = Event("load", "-", r)

controllerVars ==
    <<scrollY, innerWidth, innerHeight, tocContainer, backToTopButton,
      tocDetails, open, tocHidden, bttHidden, lastScrollY, rafPending,
      enableHideAfterPixels, autoHideTimeoutId, timeouts, rafQueue,
      hiddenBy, ev, timerOps, run>>

\* the page as the browser hands it to the handlers: the checkbox as the
\* markup has it, nothing on the body, the storage as it was left
FreshPreview(markupChecked, stored, lastSet) ==
    [toggle |-> TRUE, checked |-> markupChecked, previewsOff |-> FALSE,
     stored |-> stored, lastSet |-> lastSet, last |-> "load"]

InitPreview ==
    \E w \in ViewportWidths, h \in ViewportHeights,
       markupChecked \in BOOLEAN, stored \in {"null", "true", "false"} :
        /\ PageWithoutPanels(0, w, h)
        /\ preview = previewLoad(FreshPreview(markupChecked, stored, "none"), w)
        /\ blog = NoBlog

\* the user flips the checkbox
PreviewChange ==
    /\ preview.toggle
    /\ preview' = [previewOnChange([preview EXCEPT !.checked = ~@])
                      EXCEPT !.lastSet = BoolString(~preview.checked),
                             !.last = "change"]
    /\ UNCHANGED <<controllerVars, blog>>

\* the next page load, in the viewport as it is now
PreviewReload ==
    /\ preview.toggle
    /\ \E markupChecked \in BOOLEAN :
          preview' = previewLoad(
                        FreshPreview(markupChecked, preview.stored, preview.lastSet),
                        innerWidth)
    /\ UNCHANGED <<controllerVars, blog>>

NextPreview ==
    \/ PreviewChange
    \/ PreviewReload
    \/ \E w \in ViewportWidths, h \in ViewportHeights : Resize(w, h)

SpecPreview == InitPreview /\ [][NextPreview]_vars

(***************************************************************************)
(* The blog list (src/unnamed/part_000, lines 71-132), on a page without   *)
(* the two panels.  The state after the DOMContentLoaded handler: the      *)
(* placeholder is in the list and the fetch of the first candidate is in   *)
(* flight.  Each await and each promise callback is a step.                *)
(***************************************************************************)
\* posts in a served index
MaxPosts == 2
\* the dates a post may carry (0: none)
MaxDate == 2

dataCandidates == <<"data/blog_data.json", "/data/blog_data.json">>

\* an entry of a served array: null, or a post with a date (0: no date) and
\* its place in the file
Entries(k) ==
    {[isNull |-> TRUE, date |-> 0, at |-> k]}
        \cup {[isNull |-> FALSE, date |-> d, at |-> k] : d \in 0..MaxDate}

\* what a candidate may serve as JSON: something that is no array, or an
\* array of up to MaxPosts entries
ServedData ==
    {[isArray |-> FALSE, items |-> <<>>]}
        \cup UNION {{[isArray |-> TRUE, items |-> [k \in 1..n |-> f[k]]] :
                        f \in {g \in [1..n -> UNION {Entries(k) : k \in 1..n}] :
                                    \A k \in 1..n : g[k].at = k}} :
                    n \in 0..MaxPosts}

\* Array.prototype.sort with (a, b) => dateB - dateA: stable, newest first
RECURSIVE insertByDate(_, _)
insertByDate(post, sorted) ==
    IF sorted = <<>> THEN <<post>>
    ELSE IF Head(sorted).date >= post.date
         THEN <<Head(sorted)>> \o insertByDate(post, Tail(sorted))
         ELSE <<post>> \o sorted

RECURSIVE sortByDate(_)
sortByDate(posts) ==
    IF posts = <<>> THEN <<>>
    ELSE insertByDate(posts[Len(posts)], sortByDate(SubSeq(posts, 1, Len(posts) - 1)))

\* reading a.date or post.file of a null entry throws a TypeError
renderThrows(posts) == \E k \in 1..Len(posts) : posts[k].isNull

BlogStart ==
    [list |-> TRUE, pc |-> "fetch", idx |-> 1,
     fetched |-> <<dataCandidates[1]>>, succeeded |-> 0,
     lastError |-> "none", data |-> [isArray |-> FALSE, items |-> <<>>],
     content |-> "loading", shown |-> <<>>]

\* the catch block of the loop: remember the error, go on to the next
\* candidate or, after the last one, throw
blogCandidateFailed(b, error) ==
    IF b.idx < Len(dataCandidates)
    THEN [b EXCEPT !.lastError = error, !.idx = @ + 1, !.pc = "fetch",
                   !.fetched = Append(@, dataCandidates[b.idx + 1])]
    ELSE [b EXCEPT !.lastError = error, !.pc = "catch"]

\* await fetch(path) settles: rejected, or a response that is ok or not
blogFetchSettled(b, outcome) ==
    CASE outcome = "rejected" -> blogCandidateFailed(b, "network")
      [] outcome = "notOk" -> blogCandidateFailed(b, "http")
      [] OTHER -> [b EXCEPT !.pc = "json"]

\* await response.json() settles: a syntax error, or the data
blogJsonSettled(b, parsed, data) ==
    IF ~parsed THEN blogCandidateFailed(b, "syntax")
    ELSE [b EXCEPT !.pc = "then", !.succeeded = b.idx, !.data = data]

\* the then callback
blogThen(b) ==
    LET posts == IF b.data.isArray THEN b.data.items ELSE <<>>
    IN  IF Len(posts) = 0
        THEN [b EXCEPT !.content = "none", !.pc = "done"]
        ELSE IF renderThrows(posts)
             THEN [b EXCEPT !.content = "blank", !.pc = "catch",
                            !.lastError = "type"]
             ELSE [b EXCEPT !.content = "posts", !.shown = sortByDate(posts),
                            !.pc = "done"]

\* the catch callback
blogCatch(b) == [b EXCEPT !.content = "error", !.shown = <<>>, !.pc = "done"]

InitBlog ==
    \E w \in ViewportWidths, h \in ViewportHeights :
        /\ PageWithoutPanels(0, w, h)
        /\ preview = NoPreview
        /\ blog = BlogStart

BlogFetchSettles ==
    /\ blog.list /\ blog.pc = "fetch"
    /\ \E outcome \in {"rejected", "notOk", "ok"} :
          blog' = blogFetchSettled(blog, outcome)
    /\ UNCHANGED <<controllerVars, preview>>

BlogJsonSettles ==
    /\ blog.list /\ blog.pc = "json"
    /\ \/ blog' = blogJsonSettled(blog, FALSE, blog.data)
       \/ \E data \in ServedData : blog' = blogJsonSettled(blog, TRUE, data)
    /\ UNCHANGED <<controllerVars, preview>>

BlogThen ==
    /\ blog.list /\ blog.pc = "then"
    /\ blog' = blogThen(blog)
    /\ UNCHANGED <<controllerVars, preview>>

BlogCatch ==
    /\ blog.list /\ blog.pc = "catch"
    /\ blog' = blogCatch(blog)
    /\ UNCHANGED <<controllerVars, preview>>

NextBlog ==
    \/ BlogFetchSettles
    \/ BlogJsonSettles
    \/ BlogThen
    \/ BlogCatch

SpecBlog == InitBlog /\ [][NextBlog]_vars

(***************************************************************************)
(* Properties.                                                             *)
(***************************************************************************)
Mobile == innerWidth <= 899

PastThreshold == scrollY >= enableHideAfterPixels

\* the last handler ran update: page load, an animation frame or a resize
Evaluated == ControllerActive(Cur) /\ ev.name \in {"load", "frame", "resize"}

DisclosureOpen == tocDetails /\ open

BothShown == ~tocHidden /\ ~bttHidden

\* every panel that exists is hidden
BothHidden == (tocContainer => tocHidden) /\ (backToTopButton => bttHidden)

ClassesAsBefore == tocHidden = ev.preToc /\ bttHidden = ev.preBtt

\* C1: the TOC container never carries scroll-direction-hidden while its
\* disclosure is open, whatever events have been handled.
C1_OpenTocNeverHidden == DisclosureOpen => ~tocHidden

\* the disclosure was opened while the TOC was hidden, and the TOC is shown
C1_Witness ==
    /\ ev.name = "toggle"
    /\ DisclosureOpen
    /\ ev.preToc
    /\ ~tocHidden

\* C2: at most one auto-hide timeout is pending in the browser at any
\* instant, and it is the one the handle names.
C2_AtMostOneTimer ==
    /\ Cardinality(timeouts) <= 1
    /\ timeouts \subseteq {autoHideTimeoutId}

\* a touch rescheduled the timer while one was pending
C2_Witness ==
    /\ ev.name = "touch"
    /\ ev.preTimer
    /\ Cardinality(timeouts) = 1

\* C3 as stated: after update has run in a mobile viewport at a position
\* below the threshold, both panels are shown.
C3_Original ==
    (Evaluated /\ Mobile /\ ~PastThreshold) => BothShown

\* C3 as amended: after update has run in a mobile viewport at a position
\* below the threshold and at least 8px away from the baseline, both panels
\* are shown.
C3_ShownBelowThresholdOnDecision ==
    (Evaluated /\ Mobile /\ ~PastThreshold /\ ev.dir # "small") => BothShown

\* hidden panels were shown by an evaluation that ended below the threshold
C3_Witness ==
    /\ ev.name = "frame"
    /\ Mobile
    /\ ~PastThreshold
    /\ ev.dir # "small"
    /\ ev.preToc /\ ev.preBtt
    /\ BothShown

\* C4 as stated: an evaluation of update less than 8px away from the
\* baseline leaves the class of both panels as it was.
C4_Original ==
    (Evaluated /\ ev.dir = "small") => ClassesAsBefore

\* C4 as amended: in a mobile viewport, an evaluation of update less than
\* 8px away from the baseline leaves the class of both panels as it was.
C4_SmallDeltaKeepsClasses ==
    (Evaluated /\ Mobile /\ ev.dir = "small") => ClassesAsBefore

\* a frame evaluated a movement of less than 8px that ended below the
\* threshold, and the hidden panels stayed hidden
C4_Witness ==
    /\ ev.name = "frame"
    /\ Mobile
    /\ ev.dir = "small"
    /\ scrollY # lastScrollY
    /\ ~PastThreshold
    /\ tocHidden /\ bttHidden

\* C5: in a desktop viewport both panels are shown and no auto-hide timeout
\* is pending.
C5_DesktopShownNoTimer ==
    ~Mobile => (BothShown /\ timeouts = {})

\* a resize from mobile to desktop found the panels hidden and a timer
\* pending
C5_Witness ==
    /\ ev.name = "resize"
    /\ ~Mobile
    /\ ev.preToc /\ ev.preBtt /\ ev.preTimer
    /\ BothShown
    /\ timeouts = {}

\* C6: at most one deferred evaluation is queued for the next frame.
C6_AtMostOneQueuedEvaluation == rafQueue <= 1

\* C7: in a mobile viewport with the disclosure closed, a frame's evaluation
\* of a downward movement of 8px or more ending past the threshold leaves
\* every panel hidden and no timeout pending, and a frame's evaluation of an
\* upward movement of 8px or more ending past the threshold leaves both
\* panels shown and exactly one timeout pending.
C7_DownHidesUpShowsAndSchedules ==
    (ev.name = "frame" /\ Mobile /\ PastThreshold /\ ~DisclosureOpen) =>
        /\ ev.dir = "down" => (BothHidden /\ timeouts = {})
        /\ ev.dir = "up" => (BothShown /\ Cardinality(timeouts) = 1)

\* panels hidden by a downward scroll, no timer pending, were shown by an
\* upward evaluation past the threshold, which left one timer pending
C7_Witness ==
    /\ ev.name = "frame"
    /\ Mobile /\ PastThreshold /\ ~DisclosureOpen
    /\ ev.dir = "up"
    /\ ev.preBy = "scroll" /\ ev.preToc /\ ev.preBtt /\ ~ev.preTimer
    /\ BothShown
    /\ Cardinality(timeouts) = 1

\* C8: in a mobile viewport past the threshold with the disclosure open, a
\* frame's evaluation of a downward movement of 8px or more leaves the TOC
\* shown and hides the back-to-top control.
C8_OpenExemptsTocOnly ==
    (ev.name = "frame" /\ Mobile /\ PastThreshold /\ DisclosureOpen
        /\ ev.dir = "down") =>
        (~tocHidden /\ (backToTopButton => bttHidden))

\* that evaluation hid a back-to-top control that was shown
C8_Witness ==
    /\ ev.name = "frame"
    /\ Mobile /\ PastThreshold /\ DisclosureOpen
    /\ ev.dir = "down"
    /\ ~ev.preBtt
    /\ bttHidden
    /\ ~tocHidden

\* C9: a touch handled right after a frame's downward evaluation hid the
\* panels (mobile, past the threshold, disclosure closed) finds no timeout
\* pending, and a touch never changes the class of either panel: hidden
\* panels stay hidden.
C9_TouchKeepsHidden ==
    [][ev'.name = "touch" =>
            /\ (ev.name = "frame" /\ ev.dir = "down" /\ Mobile /\ PastThreshold
                    /\ ~DisclosureOpen)
                => (timeouts = {} /\ BothHidden)
            /\ tocHidden' = tocHidden
            /\ bttHidden' = bttHidden]_vars

\* panels hidden by a downward scroll were touched with no timer pending and
\* are still hidden
C9_Witness ==
    /\ ev.name = "touch"
    /\ Mobile /\ PastThreshold
    /\ ev.preBy = "scroll" /\ ev.preToc /\ ev.preBtt /\ ~ev.preTimer
    /\ tocHidden /\ bttHidden

\* the triggers of C10 that the code does act on: an upward evaluation, a
\* deciding evaluation near the top, the disclosure opening; and the only
\* ways into Hidden
C10_CommonPart ==
    /\ (ev.name = "frame" /\ Mobile /\ ev.dir = "up") => BothShown
    /\ (Evaluated /\ Mobile /\ ~PastThreshold /\ ev.dir # "small") => BothShown
    /\ (ev.name = "toggle" /\ DisclosureOpen) => BothShown
    /\ ((tocHidden /\ ~ev.preToc) \/ (bttHidden /\ ~ev.preBtt)) =>
            \/ ev.name = "timer"
            \/ ev.name = "frame" /\ Mobile /\ PastThreshold /\ ev.dir = "down"

\* C10 as stated: a hidden panel is shown by each of the four triggers, a
\* touch or click in the mobile active zone among them, and a panel is
\* hidden only by a downward scroll past the threshold or the timer firing.
C10_Original ==
    /\ C10_CommonPart
    /\ (ev.name \in {"touch", "click"} /\ Mobile /\ PastThreshold) => BothShown

\* C10 as amended: a hidden panel is shown by an upward scroll evaluation, a
\* deciding evaluation near the top and the disclosure opening; a touch or
\* click never changes a panel's class; a panel is hidden only by a downward
\* scroll past the threshold or the timer firing.
C10_PanelTransitions ==
    /\ C10_CommonPart
    /\ ev.name \in {"touch", "click"} => ClassesAsBefore

\* a click in the mobile active zone found the panels hidden and left them
\* hidden
C10_Witness ==
    /\ ev.name = "click"
    /\ Mobile /\ PastThreshold
    /\ ev.preToc /\ ev.preBtt
    /\ tocHidden /\ bttHidden

\* the three conditions of scheduleAutoHide, on the page as it is now
ScheduleConditions == Mobile /\ PastThreshold /\ ~DisclosureOpen

\* C11: from any reachable state, a second call of update right after a
\* first one, with nothing changed in between, changes the class of neither
\* panel.
C11_UpdateIdempotent ==
    ControllerActive(Cur) =>
        LET once == update(Cur)
            twice == update(once)
        IN  /\ twice.tocHidden = once.tocHidden
            /\ twice.bttHidden = once.bttHidden

\* an evaluation is due whose first call changes a class: the second call
\* (the frame runs every queued callback) leaves it
C11_Witness ==
    /\ rafQueue > 0
    /\ update(Cur).bttHidden # bttHidden
    /\ update(update(Cur)).bttHidden = update(Cur).bttHidden

\* C12: in a mobile viewport with the panels shown, the position at or past
\* the threshold, the disclosure not expanded and no evaluation queued, an
\* auto-hide timeout is pending (so that the panels are hidden if nothing
\* else happens).
C12_ShownPastThresholdHasTimer ==
    (ControllerActive(Cur) /\ ScheduleConditions /\ BothShown /\ rafQueue = 0)
        => timeouts # {}

\* C13: the timeout callback hides every panel if, as it runs, the viewport
\* is mobile, the position is at or past the threshold and the disclosure is
\* not expanded; otherwise it changes the class of neither panel.
C13_TimerHidesIffConditions ==
    ev.name = "timer" =>
        IF ScheduleConditions THEN BothHidden ELSE ClassesAsBefore

\* the timeout fired with the three conditions true and hid both panels
C13_Witness ==
    /\ ev.name = "timer"
    /\ ScheduleConditions
    /\ tocContainer /\ backToTopButton
    /\ ~ev.preToc /\ ~ev.preBtt
    /\ tocHidden /\ bttHidden

\* C15: a timeout becomes pending only when the viewport is mobile, the
\* position is at or past the threshold and the disclosure is not expanded;
\* a call of scheduleAutoHide (a touch, a click) in any other situation ends
\* with no timeout pending.
C15_ScheduledOnlyUnderConditions ==
    /\ timerOps.issued => ScheduleConditions
    /\ (timeouts # {} /\ ~ev.preTimer) => ScheduleConditions
    /\ ev.name \in {"touch", "click"} => (timeouts # {} <=> ScheduleConditions)

\* a touch below the threshold cancelled the pending timeout and scheduled
\* none
C15_Witness ==
    /\ ev.name = "touch"
    /\ Mobile /\ ~PastThreshold
    /\ ev.preTimer
    /\ timeouts = {}

\* the events of C16 that cancel the pending timeout whatever they decide
C16_AlwaysCancelling ==
    \/ ev.name \in {"touch", "click"}
    \/ ev.name = "toggle" /\ DisclosureOpen

\* C16 as stated: a scroll evaluation in a mobile viewport (whatever the
\* delta), a touch, a click and the disclosure opening each cancel the
\* timeout that was pending, and each but the opening schedules a fresh one
\* when the three conditions hold.
C16_Original ==
    /\ (C16_AlwaysCancelling \/ (ev.name = "frame" /\ Mobile))
            => (ev.preTimer => timerOps.cancelled)
    /\ (ev.name \in {"touch", "click"} \/ (ev.name = "frame" /\ Mobile))
            => (ScheduleConditions => (timerOps.issued /\ timeouts # {}))

\* C16 as amended: a touch, a click, the disclosure opening and a scroll
\* evaluation at least 8px away from the baseline each cancel the timeout
\* that was pending; a touch, a click and an upward evaluation then schedule
\* a fresh one exactly when the three conditions hold, a downward evaluation
\* past the threshold (which hides) and the opening schedule none; a scroll
\* evaluation less than 8px away from the baseline leaves the pending
\* timeout as it is.
C16_CancelAndReschedule ==
    /\ (C16_AlwaysCancelling \/ (ev.name = "frame" /\ Mobile /\ ev.dir # "small"))
            => (ev.preTimer => timerOps.cancelled)
    /\ (ev.name \in {"touch", "click"} \/ (ev.name = "frame" /\ Mobile /\ ev.dir = "up"))
            => (timerOps.issued <=> ScheduleConditions)
    /\ ((ev.name = "frame" /\ Mobile /\ ev.dir = "down") \/ (ev.name = "toggle" /\ DisclosureOpen))
            => (~timerOps.issued /\ timeouts = {})
    /\ (ev.name = "frame" /\ Mobile /\ ev.dir = "small")
            => (~timerOps.cancelled /\ ~timerOps.issued /\ (timeouts # {} <=> ev.preTimer))

\* a frame evaluated a movement of less than 8px with a timeout pending and
\* the three conditions true: the timeout is still the old one
C16_Witness ==
    /\ ev.name = "frame"
    /\ ev.dir = "small"
    /\ scrollY # lastScrollY
    /\ ScheduleConditions
    /\ ev.preTimer
    /\ ~timerOps.cancelled /\ ~timerOps.issued
    /\ timeouts # {}

\* C17: once the toggle listener has handled the opening, the TOC is shown,
\* the baseline is the current position and no timeout is pending; no
\* timeout is pending while the disclosure is open, whatever is handled;
\* when the disclosure closes a timeout is scheduled exactly if the viewport
\* is mobile and the position is at or past the threshold.
C17_OpenDisclosureHoldsNoTimer ==
    /\ (ev.name = "toggle" /\ DisclosureOpen)
            => (~tocHidden /\ lastScrollY = scrollY /\ timeouts = {})
    /\ DisclosureOpen => timeouts = {}
    /\ (ev.name = "toggle" /\ tocDetails /\ ~open)
            => /\ timeouts # {} <=> (Mobile /\ PastThreshold)
               /\ timerOps.issued <=> (Mobile /\ PastThreshold)

\* the disclosure closed past the threshold with no timeout pending, and
\* one was scheduled
C17_Witness ==
    /\ ev.name = "toggle"
    /\ tocDetails /\ ~open
    /\ Mobile /\ PastThreshold
    /\ ~ev.preTimer
    /\ timerOps.issued
    /\ timeouts # {}

\* the page as it would be with both elements present
WithBoth(s) == [s EXCEPT !.tocContainer = TRUE, !.backToTopButton = TRUE]

\* a handler result without the TOC's presence and class (without the
\* back-to-top control's)
SansToc(r) == [r EXCEPT !.tocContainer = TRUE, !.tocHidden = FALSE]

SansBtt(r) == [r EXCEPT !.backToTopButton = TRUE, !.bttHidden = FALSE]

\* what each handler makes of the page s
HandlerResults(s) ==
    <<update(s), onScroll(s), onResize(s), onTouch(s), onClick(s),
      onToggle(s), autoHideCallback(s)>>

\* C18: with neither element the controller holds no listener, no timeout,
\* no queued evaluation and no class; with exactly one element every handler
\* does to it and to the controller's variables what it would do with both
\* elements present, and the class of the missing element is never set.
C18_MissingElements ==
    /\ ~ControllerActive(Cur) =>
            /\ timeouts = {} /\ autoHideTimeoutId = Null
            /\ rafQueue = 0 /\ ~rafPending
            /\ BothShown
            /\ ev.name \in {"load", "scroll", "resize"}
    /\ ~tocContainer => ~tocHidden
    /\ ~backToTopButton => ~bttHidden
    /\ (backToTopButton /\ ~tocContainer) =>
            \A i \in 1..7 :
                SansToc(HandlerResults(Cur)[i]) = SansToc(HandlerResults(WithBoth(Cur))[i])
    /\ (tocContainer /\ ~backToTopButton) =>
            \A i \in 1..7 :
                SansBtt(HandlerResults(Cur)[i]) = SansBtt(HandlerResults(WithBoth(Cur))[i])

\* on a page with the back-to-top control only, a frame's evaluation hid it
C18_Witness ==
    /\ backToTopButton /\ ~tocContainer
    /\ ev.name = "frame"
    /\ ~ev.preBtt
    /\ bttHidden
    /\ ~tocHidden

\* the handle is not null and names no pending timeout
StaleHandle == autoHideTimeoutId # Null /\ timeouts = {}

\* C20 as stated: the handle is not null exactly when a timeout is pending.
C20_Original == (autoHideTimeoutId # Null) <=> (timeouts # {})

\* C20 as amended: a pending timeout is always the one the handle names (so
\* a null handle means none is pending), and the handle is left naming a
\* timeout that is no longer pending only by that timeout firing.
C20_HandleNamesPendingTimer ==
    [][/\ timeouts # {} => timeouts = {autoHideTimeoutId}
       /\ timeouts' # {} => timeouts' = {autoHideTimeoutId'}
       /\ (StaleHandle' /\ ~StaleHandle) => ev'.name = "timer"]_vars

\* the timeout fired below the threshold, returned early and left the handle
C20_Witness ==
    /\ ev.name = "timer"
    /\ ~ScheduleConditions
    /\ StaleHandle

\* C14: after the user has set the preview toggle to v, the initialisation
\* of the next page load leaves toggle.checked at v and the stored
\* previewEnabled at v, in every viewport width.
C14_PreferenceRestored ==
    (preview.toggle /\ preview.last = "load" /\ preview.lastSet # "none") =>
        /\ BoolString(preview.checked) = preview.lastSet
        /\ preview.stored = preview.lastSet

\* C19: the candidates are fetched in their order, none after one has
\* answered ok with parseable JSON; once loading has ended the placeholder
\* is gone and the list holds the error item exactly if every candidate
\* failed.
C19_BlogListLoading ==
    /\ blog.list =>
        /\ blog.fetched = SubSeq(dataCandidates, 1, Len(blog.fetched))
        /\ blog.succeeded # 0 => Len(blog.fetched) = blog.succeeded
    /\ (blog.list /\ blog.pc = "done") =>
        /\ blog.content \in {"posts", "none", "error"}
        /\ blog.content = "error" <=>
                (blog.succeeded = 0 /\ Len(blog.fetched) = Len(dataCandidates))

\* the classes a direction decision leaves: shown below the threshold and
\* on the way up, hidden on the way down (the TOC only while its disclosure
\* is closed)
DecidedFor(dir) ==
    IF PastThreshold /\ dir = "down"
    THEN /\ backToTopButton => bttHidden
         /\ tocContainer => (tocHidden <=> ~DisclosureOpen)
    ELSE BothShown

\* C21: the baseline lastScrollY changes only in an evaluation that makes a
\* decision (or in a desktop viewport, on resize, or when the disclosure
\* opens), and then to the current scroll offset; in a mobile viewport an
\* evaluation that finds less than 8 px from the baseline keeps it, so the
\* movement the evaluations have seen and not decided stays below 8 px, and
\* the evaluation at which small moves in one direction have added up to
\* 8 px makes the decision for that direction and advances the baseline.
C21_SmallMovesAccumulate ==
    /\ []((ControllerActive(Cur) /\ Mobile) =>
            Abs(run.seenY - lastScrollY) < DecisionPixels)
    /\ []((ev.name = "frame" /\ Mobile /\ run.accumulated) =>
            (ev.dir # "small" /\ lastScrollY = scrollY /\ DecidedFor(ev.dir)))
    /\ [][/\ lastScrollY' # lastScrollY =>
                /\ lastScrollY' = scrollY'
                /\ ev'.name \in {"frame", "resize", "toggle"}
                /\ ev'.name = "frame" => (~Mobile' \/ ev'.dir # "small")
                /\ ev'.name = "toggle" => open'
          /\ (ev'.name = "frame" /\ Mobile' /\ ev'.dir # "small") =>
                lastScrollY' = scrollY']_vars

\* two downward moves of less than 8 px, each followed by an evaluation:
\* the second evaluation found 8 px or more from the baseline and hid the
\* button
C21_Witness ==
    /\ ev.name = "frame"
    /\ Mobile
    /\ run.accumulated
    /\ ev.dir = "down"
    /\ PastThreshold
    /\ backToTopButton /\ bttHidden /\ ~ev.preBtt
    /\ lastScrollY = scrollY

=============================================================================
